---- MODULE Spec2Model ----
(***************************************************************************)
(* Behaviour of the useDialog hook (packages/dialog/src/Dialog.hook.ts):   *)
(* one hook instance ("self"), its props, its two refs, the effect of      *)
(* useAriaHidden, the dialog manager's stack shared with another dialog,   *)
(* and the three overlay event handlers.                                   *)
(***************************************************************************)
EXTENDS Integers, Sequences, FiniteSets, TLC

\* ---------------------------------------------------------------- bounds
\* a re-render changes at most MaxChanged props at once
MaxChanged == 1
\* accepted overlay clicks counted since the most recent mouse-down
MaxClicks == 2
\* cap on hideOthers calls that are not undone
MaxOutstanding == 2

\* ---------------------------------------------------------------- values
NULL == "null"
NODE == "node"
SelfRef == "self"
OtherRef == "other"
\* event targets below the overlay: the overlay itself, the dialog content,
\* and another element inside the overlay that is not in the content
Targets == {"overlay", "content", "sibling"}
Keys == {"Escape", "Enter"}
\* an optional boolean prop
Opt == {"omitted", "true", "false"}

PropsSet ==
  [isOpen : BOOLEAN,
   shouldCloseOnOverlayClick : Opt,
   shouldCloseOnEsc : Opt,
   useInert : Opt,
   onClose : BOOLEAN,
   onEsc : BOOLEAN,
   onOverlayClick : BOOLEAN]

\* props of a hook that is not mounted (no instance exists)
NoProps ==
  [isOpen |-> FALSE,
   shouldCloseOnOverlayClick |-> "omitted",
   shouldCloseOnEsc |-> "omitted",
   useInert |-> "omitted",
   onClose |-> FALSE,
   onEsc |-> FALSE,
   onOverlayClick |-> FALSE]

VARIABLES
  mounted,           \* the component calling useDialog is mounted
  props,             \* props of the latest render
  dialogRef,         \* dialogRef.current
  mouseDownTarget,   \* mouseDownTarget.current
  ariaCleanup,       \* cleanup closure registered by useAriaHidden's effect
  hidden,            \* hideOthers calls of this dialog not undone yet
  dialogs,           \* manager.dialogs
  lastEvent,         \* the event handled by the latest step
  calls,             \* calls made by the handler of the latest step
  lastDown,          \* target of the most recent mouse-down event delivered
  symmetricClicks,    \* symmetric topmost clicks since the latest mouse-down
  reopened,          \* isOpen went false -> true since an accepted click
  mouseDownTargetB,  \* mouseDownTarget.current of a second run of the hook
  callsB             \* calls made by the second run for the latest event

vars == <<mounted, props, dialogRef, mouseDownTarget, ariaCleanup, hidden,
          dialogs, lastEvent, calls, lastDown, symmetricClicks, reopened,
          mouseDownTargetB, callsB>>

\* ------------------------------------------------- destructuring defaults
OrDefault(v, d) == IF v = "omitted" THEN d ELSE v = "true"

shouldCloseOnOverlayClickNoDefault(p) == p.shouldCloseOnOverlayClick = "true"

shouldCloseOnOverlayClick(p) == OrDefault(p.shouldCloseOnOverlayClick, TRUE)

shouldCloseOnEsc(p) == OrDefault(p.shouldCloseOnEsc, TRUE)

useInert(p) == OrDefault(p.useInert, TRUE)

\* second argument of useAriaHidden
shouldHide(p) == p.isOpen /\ useInert(p)

\* ------------------------------------------------------- dialog manager
add(ds, ref) == Append(ds, ref)

remove(ds, ref) == SelectSeq(ds, LAMBDA d : d # ref)

isTopDialog(ds, ref) == Len(ds) > 0 /\ ds[Len(ds)] = ref

useDialogManager(first, oldOpen, newOpen, ds) ==
  IF first \/ oldOpen # newOpen
  THEN LET cleaned == IF first THEN ds ELSE remove(ds, SelfRef)
       IN  IF newOpen THEN add(cleaned, SelfRef) ELSE cleaned
  ELSE ds

\* ------------------------------------------------------------- handlers
OptCallThrows(provided, name) == IF provided THEN <<name>> ELSE <<"TypeError">>

\* f?.() : call f when it is provided, skip it otherwise
OptCall(provided, name) == IF provided THEN <<name>> ELSE <<>>

onMouseDown(target) == target

onKeyDownIgnoresFlag(key, p) ==
  IF key = "Escape"
  THEN <<"stopPropagation">> \o OptCall(p.onClose, "onClose") \o OptCall(p.onEsc, "onEsc")
  ELSE <<>>

onKeyDown(key, p) ==
  IF key = "Escape"
  THEN <<"stopPropagation">>
       \o (IF shouldCloseOnEsc(p) THEN OptCall(p.onClose, "onClose") ELSE <<>>)
       \o OptCall(p.onEsc, "onEsc")
  ELSE <<>>

onOverlayClickBody(isTop, p) ==
  IF isTop
  THEN (IF shouldCloseOnOverlayClick(p) THEN OptCall(p.onClose, "onClose") ELSE <<>>)
       \o OptCall(p.onOverlayClick, "onOverlayClick")
  ELSE <<>>

onOverlayClickNoSymmetry(target, mdt, isTop, p) ==
  <<"stopPropagation">> \o onOverlayClickBody(isTop, p)

onOverlayClickNoTop(target, mdt, isTop, p) ==
  <<"stopPropagation">>
  \o (IF mdt # target THEN <<>> ELSE onOverlayClickBody(TRUE, p))

onOverlayClickNullCheck(target, mdt, isTop, p) ==
  <<"stopPropagation">>
  \o (IF mdt = NULL THEN <<>> ELSE onOverlayClickBody(isTop, p))

onOverlayClick(target, mdt, isTop, p) ==
  <<"stopPropagation">>
  \o (IF mdt # target
      THEN <<>>
      ELSE IF isTop
           THEN (IF shouldCloseOnOverlayClick(p)
                 THEN OptCall(p.onClose, "onClose")
                 ELSE <<>>)
                \o OptCall(p.onOverlayClick, "onOverlayClick")
           ELSE <<>>)

\* onClick of the dialog content: the click never reaches the overlay
contentOnClick == <<"stopPropagation">>

\* ---------------------------------------------------------- useAriaHidden
NoCleanup == [registered |-> FALSE, shouldHide |-> FALSE, undo |-> FALSE]

ariaCleanupRunNoUndo(c, h) == [hidden |-> h, calls |-> <<>>]

\* the cleanup returned by the effect, run before the next effect or at unmount
ariaCleanupRun(c, h) ==
  IF c.registered /\ c.shouldHide /\ c.undo
  THEN [hidden |-> h - 1, calls |-> <<"undo">>]
  ELSE [hidden |-> h, calls |-> <<>>]

\* the effect body
ariaEffect(ref, sh, h) ==
  IF ref = NULL
  THEN [cleanup |-> NoCleanup, hidden |-> h, calls |-> <<>>]
  ELSE IF sh /\ ref # NULL
       THEN [cleanup |-> [registered |-> TRUE, shouldHide |-> sh, undo |-> TRUE],
             hidden |-> h + 1,
             calls |-> <<"hideOthers">>]
       ELSE [cleanup |-> [registered |-> TRUE, shouldHide |-> sh, undo |-> FALSE],
             hidden |-> h,
             calls |-> <<>>]

\* the effect runs on the first render and whenever shouldHide changed
\* (the ref object in the deps is the same object on every render)
useAriaHidden(first, oldHide, newHide, ref, c, h) ==
  IF first \/ oldHide # newHide
  THEN LET u == ariaCleanupRun(c, h)
           e == ariaEffect(ref, newHide, u.hidden)
       IN  [cleanup |-> e.cleanup, hidden |-> e.hidden, calls |-> u.calls \o e.calls]
  ELSE [cleanup |-> c, hidden |-> h, calls |-> <<>>]

\* ------------------------------------------------------------------ Init
NoEvent == [kind |-> "none", arg |-> NULL]

Init ==
  /\ mounted = FALSE
  /\ props = NoProps
  /\ dialogRef = NULL
  /\ mouseDownTarget = NULL
  /\ ariaCleanup = NoCleanup
  /\ hidden = 0
  /\ dialogs = <<>>
  /\ lastEvent = NoEvent
  /\ calls = <<>>
  /\ lastDown = NULL
  /\ symmetricClicks = 0
  /\ reopened = FALSE
  /\ mouseDownTargetB = NULL
  /\ callsB = <<>>

\* --------------------------------------------------------------- actions
Changed(p, q) == Cardinality({f \in DOMAIN p : p[f] # q[f]})

InStack(ds, ref) == \E i \in 1..Len(ds) : ds[i] = ref

\* first render of the hook, commit (the ref is attached when the content is
\* rendered in the same commit: node = NODE), then the effects
Mount(p, node) ==
  /\ ~mounted
  /\ LET a == useAriaHidden(TRUE, FALSE, shouldHide(p), node, NoCleanup, hidden)
     IN  /\ a.hidden <= MaxOutstanding
         /\ ariaCleanup' = a.cleanup
         /\ hidden' = a.hidden
         /\ calls' = a.calls
  /\ mounted' = TRUE
  /\ props' = p
  /\ dialogRef' = node
  /\ dialogs' = useDialogManager(TRUE, FALSE, p.isOpen, dialogs)
  /\ lastEvent' = NoEvent
  /\ callsB' = <<>>
  /\ UNCHANGED <<mouseDownTarget, lastDown, symmetricClicks, reopened,
                 mouseDownTargetB>>

\* re-render with new props, commit, then the effects whose deps changed
Render(p, node) ==
  /\ mounted
  /\ Changed(props, p) <= MaxChanged
  /\ LET a == useAriaHidden(FALSE, shouldHide(props), shouldHide(p), node,
                            ariaCleanup, hidden)
     IN  /\ a.hidden <= MaxOutstanding
         /\ ariaCleanup' = a.cleanup
         /\ hidden' = a.hidden
         /\ calls' = a.calls
  /\ props' = p
  /\ dialogRef' = node
  /\ dialogs' = useDialogManager(FALSE, props.isOpen, p.isOpen, dialogs)
  /\ reopened' = (reopened \/ (symmetricClicks > 0 /\ ~props.isOpen /\ p.isOpen))
  /\ lastEvent' = NoEvent
  /\ callsB' = <<>>
  /\ UNCHANGED <<mounted, mouseDownTarget, lastDown, symmetricClicks,
                 mouseDownTargetB>>

\* the component is removed: refs are detached, every cleanup runs, and the
\* instance with its refs is gone
Unmount ==
  /\ mounted
  /\ mounted' = FALSE
  /\ props' = NoProps
  /\ dialogRef' = NULL
  /\ mouseDownTarget' = NULL
  /\ mouseDownTargetB' = NULL
  /\ LET u == ariaCleanupRun(ariaCleanup, hidden)
     IN  /\ hidden' = u.hidden
         /\ calls' = u.calls
  /\ ariaCleanup' = NoCleanup
  /\ dialogs' = remove(dialogs, SelfRef)
  /\ lastEvent' = NoEvent
  /\ callsB' = <<>>
  /\ lastDown' = NULL
  /\ symmetricClicks' = 0
  /\ reopened' = FALSE

\* the dialog content mounts below the hook's component without a re-render
\* of the hook: mergeRefs stores the node in dialogRef
AttachRef ==
  /\ mounted
  /\ dialogRef = NULL
  /\ dialogRef' = NODE
  /\ lastEvent' = NoEvent
  /\ calls' = <<>>
  /\ callsB' = <<>>
  /\ UNCHANGED <<mounted, props, mouseDownTarget, ariaCleanup, hidden, dialogs,
                 lastDown, symmetricClicks, reopened, mouseDownTargetB>>

\* the dialog content unmounts without a re-render of the hook
DetachRef ==
  /\ mounted
  /\ dialogRef = NODE
  /\ dialogRef' = NULL
  /\ lastEvent' = NoEvent
  /\ calls' = <<>>
  /\ callsB' = <<>>
  /\ UNCHANGED <<mounted, props, mouseDownTarget, ariaCleanup, hidden, dialogs,
                 lastDown, symmetricClicks, reopened, mouseDownTargetB>>

\* another dialog opens: its useDialogManager effect adds its ref
OtherOpen ==
  /\ ~InStack(dialogs, OtherRef)
  /\ dialogs' = add(dialogs, OtherRef)
  /\ lastEvent' = NoEvent
  /\ calls' = <<>>
  /\ callsB' = <<>>
  /\ UNCHANGED <<mounted, props, dialogRef, mouseDownTarget, ariaCleanup,
                 hidden, lastDown, symmetricClicks, reopened, mouseDownTargetB>>

\* the other dialog closes: its cleanup removes its ref
OtherClose ==
  /\ InStack(dialogs, OtherRef)
  /\ dialogs' = remove(dialogs, OtherRef)
  /\ lastEvent' = NoEvent
  /\ calls' = <<>>
  /\ callsB' = <<>>
  /\ UNCHANGED <<mounted, props, dialogRef, mouseDownTarget, ariaCleanup,
                 hidden, lastDown, symmetricClicks, reopened, mouseDownTargetB>>

\* a mouse-down below the overlay bubbles to the overlay's onMouseDown
MouseDown(t) ==
  /\ mounted
  /\ mouseDownTarget' = onMouseDown(t)
  /\ lastDown' = t
  /\ symmetricClicks' = 0
  /\ reopened' = FALSE
  /\ lastEvent' = [kind |-> "mousedown", arg |-> t]
  /\ calls' = <<>>
  /\ callsB' = <<>>
  /\ UNCHANGED <<mounted, props, dialogRef, ariaCleanup, hidden, dialogs,
                 mouseDownTargetB>>

\* the click ends where the latest mouse-down started, on the topmost dialog
Symmetric(t) == lastDown = t /\ isTopDialog(dialogs, SelfRef)

OverlayClickResets(t) ==
  /\ mounted
  /\ t # "content"
  /\ calls' = onOverlayClick(t, mouseDownTarget, isTopDialog(dialogs, SelfRef), props)
  /\ mouseDownTarget' = NULL
  /\ lastEvent' = [kind |-> "click", arg |-> t]
  /\ symmetricClicks' = IF Symmetric(t) /\ symmetricClicks < MaxClicks
                        THEN symmetricClicks + 1 ELSE symmetricClicks
  /\ callsB' = <<>>
  /\ UNCHANGED <<mounted, props, dialogRef, ariaCleanup,
                 hidden, dialogs, lastDown, reopened, mouseDownTargetB>>

\* a click whose target is outside the content reaches the overlay's onClick
OverlayClick(t) ==
  /\ mounted
  /\ t # "content"
  /\ calls' = onOverlayClick(t, mouseDownTarget, isTopDialog(dialogs, SelfRef), props)
  /\ lastEvent' = [kind |-> "click", arg |-> t]
  /\ symmetricClicks' = IF Symmetric(t) /\ symmetricClicks < MaxClicks
                        THEN symmetricClicks + 1 ELSE symmetricClicks
  /\ callsB' = <<>>
  /\ UNCHANGED <<mounted, props, dialogRef, mouseDownTarget, ariaCleanup,
                 hidden, dialogs, lastDown, reopened, mouseDownTargetB>>

\* a click inside the content is stopped by the content's onClick
ContentClick ==
  /\ mounted
  /\ calls' = contentOnClick
  /\ lastEvent' = [kind |-> "contentclick", arg |-> "content"]
  /\ callsB' = <<>>
  /\ UNCHANGED <<mounted, props, dialogRef, mouseDownTarget, ariaCleanup,
                 hidden, dialogs, lastDown, symmetricClicks, reopened,
                 mouseDownTargetB>>

\* a key-down below the overlay bubbles to the overlay's onKeyDown
KeyDown(k) ==
  /\ mounted
  /\ calls' = onKeyDown(k, props)
  /\ lastEvent' = [kind |-> "keydown", arg |-> k]
  /\ callsB' = <<>>
  /\ UNCHANGED <<mounted, props, dialogRef, mouseDownTarget, ariaCleanup,
                 hidden, dialogs, lastDown, symmetricClicks, reopened,
                 mouseDownTargetB>>

\* ------------------------------------------- a second run of the same hook
\* Run B has the configuration and the topmost status of run A and its own
\* mouseDownTarget ref; only its mouse-downs are its own.
MouseDownB(t) ==
  /\ mounted
  /\ mouseDownTargetB' = onMouseDown(t)
  /\ lastEvent' = [kind |-> "mousedownB", arg |-> t]
  /\ calls' = <<>>
  /\ callsB' = <<>>
  /\ UNCHANGED <<mounted, props, dialogRef, mouseDownTarget, ariaCleanup,
                 hidden, dialogs, lastDown, symmetricClicks, reopened>>

\* the same overlay click is delivered to both runs
PairOverlayClick(t) ==
  /\ mounted
  /\ t # "content"
  /\ calls' = onOverlayClick(t, mouseDownTarget, isTopDialog(dialogs, SelfRef), props)
  /\ callsB' = onOverlayClick(t, mouseDownTargetB, isTopDialog(dialogs, SelfRef), props)
  /\ lastEvent' = [kind |-> "pairclick", arg |-> t]
  /\ UNCHANGED <<mounted, props, dialogRef, mouseDownTarget, ariaCleanup,
                 hidden, dialogs, lastDown, symmetricClicks, reopened,
                 mouseDownTargetB>>

\* the same key-down is delivered to both runs
PairKeyDown(k) ==
  /\ mounted
  /\ calls' = onKeyDown(k, props)
  /\ callsB' = onKeyDown(k, props)
  /\ lastEvent' = [kind |-> "pairkeydown", arg |-> k]
  /\ UNCHANGED <<mounted, props, dialogRef, mouseDownTarget, ariaCleanup,
                 hidden, dialogs, lastDown, symmetricClicks, reopened,
                 mouseDownTargetB>>

\* -------------------------------------------------------- specifications
\* props enumerated for the event handlers: useInert left at its default
HandlerProps == {p \in PropsSet : p.useInert = "omitted"}

\* props enumerated for the effects: the click flag at its default, onClose
\* provided, the optional callbacks absent
AriaProps ==
  {p \in PropsSet : /\ p.shouldCloseOnOverlayClick = "omitted"
                    /\ p.onClose /\ ~p.onEsc /\ ~p.onOverlayClick}

\* props enumerated for the two runs: every callback provided
PairProps ==
  {p \in PropsSet : /\ p.useInert = "omitted"
                    /\ p.onClose /\ p.onEsc /\ p.onOverlayClick}

\* the handlers of one dialog whose content is rendered with it
Next ==
  \/ \E p \in HandlerProps : Mount(p, NODE)
  \/ \E p \in HandlerProps : Render(p, NODE)
  \/ Unmount
  \/ OtherOpen
  \/ OtherClose
  \/ \E t \in Targets : MouseDown(t)
  \/ \E t \in Targets : OverlayClick(t)
  \/ ContentClick
  \/ \E k \in Keys : KeyDown(k)

Spec == Init /\ [][Next]_vars

\* the effects of one dialog whose content may mount later than the hook
NextAria ==
  \/ \E p \in AriaProps, node \in {NULL, NODE} : Mount(p, node)
  \/ \E p \in AriaProps, node \in {NULL, NODE} : Render(p, node)
  \/ Unmount
  \/ AttachRef
  \/ DetachRef
  \/ OtherOpen
  \/ OtherClose
  \/ \E k \in Keys : KeyDown(k)

SpecAria == Init /\ [][NextAria]_vars

\* two runs of the hook that receive different mouse-downs and the same
\* clicks and key-downs
NextPair ==
  \/ \E p \in PairProps : Mount(p, NODE)
  \/ \E p \in PairProps : Render(p, NODE)
  \/ Unmount
  \/ OtherOpen
  \/ OtherClose
  \/ \E t \in Targets : MouseDown(t)
  \/ \E t \in Targets : MouseDownB(t)
  \/ \E t \in Targets : PairOverlayClick(t)
  \/ \E k \in Keys : PairKeyDown(k)

SpecPair == Init /\ [][NextPair]_vars

TypeOK ==
  /\ mounted \in BOOLEAN
  /\ props \in PropsSet
  /\ dialogRef \in {NULL, NODE}
  /\ mouseDownTarget \in Targets \cup {NULL}
  /\ mouseDownTargetB \in Targets \cup {NULL}
  /\ hidden \in 0..MaxOutstanding
  /\ symmetricClicks \in 0..MaxClicks
  /\ reopened \in BOOLEAN

\* ------------------------------------------------------------ properties
Count(s, x) == Cardinality({i \in 1..Len(s) : s[i] = x})

Has(s, x) == Count(s, x) > 0

\* every x in s comes before every y in s
Before(s, x, y) == \A i, j \in 1..Len(s) : (s[i] = x /\ s[j] = y) => i < j

IsTrueOrOmitted(v) == v \in {"true", "omitted"}

IsTop == isTopDialog(dialogs, SelfRef)

\* C1: an overlay click whose target is not the target of the most recent
\* mouse-down (none recorded yet included) calls neither onClose nor
\* onOverlayClick, whatever shouldCloseOnOverlayClick and the topmost status.
C1_AsymmetricClickIgnored ==
  (lastEvent.kind = "click" /\ lastDown # lastEvent.arg)
    => (~Has(calls, "onClose") /\ ~Has(calls, "onOverlayClick"))

\* the drag of the claim: mouse-down on the content, click ends on the overlay,
\* on a topmost dialog that would otherwise close
C1_Witness ==
  /\ lastEvent = [kind |-> "click", arg |-> "overlay"]
  /\ lastDown = "content"
  /\ IsTop
  /\ IsTrueOrOmitted(props.shouldCloseOnOverlayClick)
  /\ props.onClose /\ props.onOverlayClick
  /\ calls = <<"stopPropagation">>

\* C2: an overlay click on a dialog that is not the topmost one calls neither
\* onClose nor onOverlayClick, even when the click is symmetric and
\* shouldCloseOnOverlayClick is true; a click that calls onClose is a click on
\* the topmost dialog.
C2_TopmostOnly ==
  lastEvent.kind = "click"
    => /\ ~IsTop => (~Has(calls, "onClose") /\ ~Has(calls, "onOverlayClick"))
       /\ Has(calls, "onClose") => (Len(dialogs) > 0 /\ dialogs[Len(dialogs)] = SelfRef)

\* two dialogs open, this one below the other, symmetric click, flag true
C2_Witness ==
  /\ lastEvent = [kind |-> "click", arg |-> "overlay"]
  /\ lastDown = "overlay"
  /\ dialogs = <<SelfRef, OtherRef>>
  /\ props.shouldCloseOnOverlayClick = "true"
  /\ props.onClose /\ props.onOverlayClick
  /\ calls = <<"stopPropagation">>

\* C3: a symmetric overlay click on the topmost dialog calls onClose (a
\* required prop, so provided) exactly once when shouldCloseOnOverlayClick is
\* true or omitted and not at all when it is false; onOverlayClick, when
\* provided, is called exactly once in both cases, after onClose.
C3_OverlayClickFlag ==
  (lastEvent.kind = "click" /\ lastDown = lastEvent.arg /\ IsTop /\ props.onClose)
    => /\ Count(calls, "onClose")
            = (IF IsTrueOrOmitted(props.shouldCloseOnOverlayClick) THEN 1 ELSE 0)
       /\ Count(calls, "onOverlayClick") = (IF props.onOverlayClick THEN 1 ELSE 0)
       /\ Before(calls, "onClose", "onOverlayClick")

\* flag omitted: onClose once, then onOverlayClick once
C3_Witness ==
  /\ lastEvent = [kind |-> "click", arg |-> "overlay"]
  /\ lastDown = "overlay"
  /\ IsTop
  /\ props.shouldCloseOnOverlayClick = "omitted"
  /\ props.onClose /\ props.onOverlayClick
  /\ calls = <<"stopPropagation", "onClose", "onOverlayClick">>

\* C4: an Escape key-down calls onClose (a required prop, so provided)
\* exactly once when shouldCloseOnEsc is true or omitted and not at all when
\* it is false; onEsc, when provided, is called exactly once in both cases,
\* after onClose; any other key calls neither.
C4_EscapeFlag ==
  lastEvent.kind = "keydown"
    => IF lastEvent.arg = "Escape"
       THEN /\ props.onClose
                 => Count(calls, "onClose")
                      = (IF IsTrueOrOmitted(props.shouldCloseOnEsc) THEN 1 ELSE 0)
            /\ Count(calls, "onEsc") = (IF props.onEsc THEN 1 ELSE 0)
            /\ Before(calls, "onClose", "onEsc")
       ELSE ~Has(calls, "onClose") /\ ~Has(calls, "onEsc")

\* flag false: Escape calls onEsc only
C4_Witness ==
  /\ lastEvent = [kind |-> "keydown", arg |-> "Escape"]
  /\ props.shouldCloseOnEsc = "false"
  /\ props.onClose /\ props.onEsc
  /\ calls = <<"stopPropagation", "onEsc">>

\* C5: after the effects of a render have run, the other elements are
\* aria-hidden by this dialog exactly when isOpen and useInert (default true)
\* are both true, also when the dialog node is attached to the ref only after
\* isOpen && useInert became true. Stated for the states in which the dialog
\* node is attached: without a node there is nothing to hide the others from.
C5_InertBackground ==
  (mounted /\ dialogRef = NODE)
    => ((hidden > 0) <=> (props.isOpen /\ IsTrueOrOmitted(props.useInert)))

\* C6: the calls made for a click or key-down depend only on the current event,
\* the configuration and the topmost status: two runs with different earlier
\* events make the same calls for the same current event.
C6_StateFree ==
  lastEvent.kind \in {"pairclick", "pairkeydown"} => calls = callsB

\* C6 as amended: key-downs are decided without any recorded state, and
\* overlay clicks by the current event, the configuration, the topmost status
\* and whether the recorded mouse-down target is the click's target.
C6_StateFreeButMouseDown ==
  /\ lastEvent.kind = "pairkeydown" => calls = callsB
  /\ (/\ lastEvent.kind = "pairclick"
      /\ (mouseDownTarget = lastEvent.arg) <=> (mouseDownTargetB = lastEvent.arg))
       => calls = callsB

\* the runs recorded different mouse-downs, neither on the click's target, and
\* the topmost dialog would otherwise close
C6_Witness ==
  /\ lastEvent = [kind |-> "pairclick", arg |-> "overlay"]
  /\ mouseDownTarget = NULL
  /\ mouseDownTargetB = "content"
  /\ IsTop
  /\ IsTrueOrOmitted(props.shouldCloseOnOverlayClick)
  /\ calls = callsB

AllProvided(p) ==
  [p EXCEPT !.onClose = TRUE, !.onEsc = TRUE, !.onOverlayClick = TRUE]

Provided(p, name) ==
  CASE name = "onClose" -> p.onClose
    [] name = "onEsc" -> p.onEsc
    [] name = "onOverlayClick" -> p.onOverlayClick
    [] OTHER -> TRUE

\* the calls of the handler when every callback is provided, without the
\* calls of the callbacks that are absent in p
Skipping(full, p) == SelectSeq(full, LAMBDA c : Provided(p, c))

\* C7: with onClose, onEsc or onOverlayClick absent, the Escape key-down and
\* the overlay click handlers raise no error, skip the absent callback, still
\* stop propagation and call the provided callbacks as when all are provided.
C7_AbsentCallbackSkipped ==
  /\ (lastEvent.kind = "keydown" /\ lastEvent.arg = "Escape")
       => /\ calls = Skipping(onKeyDown("Escape", AllProvided(props)), props)
          /\ Head(calls) = "stopPropagation"
          /\ ~Has(calls, "TypeError")
  /\ lastEvent.kind = "click"
       => /\ calls = Skipping(onOverlayClick(lastEvent.arg, mouseDownTarget, IsTop,
                                             AllProvided(props)), props)
          /\ Head(calls) = "stopPropagation"
          /\ ~Has(calls, "TypeError")

\* onClose and onOverlayClick absent on a symmetric topmost click
C7_Witness ==
  /\ lastEvent = [kind |-> "click", arg |-> "overlay"]
  /\ lastDown = "overlay"
  /\ IsTop
  /\ IsTrueOrOmitted(props.shouldCloseOnOverlayClick)
  /\ ~props.onClose /\ ~props.onOverlayClick
  /\ calls = <<"stopPropagation">>

\* the registered cleanup will undo a hideOthers call
UndoPending == ariaCleanup.registered /\ ariaCleanup.shouldHide /\ ariaCleanup.undo

\* C8: every hideOthers call of useAriaHidden is undone exactly once, by the
\* cleanup: never two calls outstanding, none undone that was not made, each
\* outstanding call has its cleanup registered, none outstanding after unmount.
C8_HideUndoPaired ==
  /\ hidden \in {0, 1}
  /\ (hidden = 1) <=> UndoPending
  /\ ~mounted => (hidden = 0 /\ ~ariaCleanup.registered)
  /\ Has(calls, "hideOthers") => (calls = <<"hideOthers">> /\ hidden = 1)
  /\ Has(calls, "undo") => (calls = <<"undo">> /\ hidden = 0)

\* an unmount whose cleanup undid the outstanding hideOthers call
C8_Witness ==
  /\ ~mounted
  /\ calls = <<"undo">>
  /\ hidden = 0

\* C9: only the overlay mouse-down handler writes the recorded mouse-down
\* target: clicks, key-downs, re-renders and isOpen changes of a mounted hook
\* leave it unchanged, so a later click on the same target, also after the
\* dialog was closed and reopened, is decided as the first one was.
C9_OnlyMouseDownWrites ==
  /\ [][(mounted /\ mounted' /\ lastEvent'.kind # "mousedown")
          => mouseDownTarget' = mouseDownTarget]_vars
  /\ [](mounted => mouseDownTarget = lastDown)
  /\ []((/\ lastEvent.kind = "click"
         /\ lastDown = lastEvent.arg
         /\ IsTop
         /\ IsTrueOrOmitted(props.shouldCloseOnOverlayClick)
         /\ props.onClose)
          => Has(calls, "onClose"))

\* a second symmetric click with no mouse-down in between, after the dialog
\* was closed and reopened, calls onClose again
C9_Witness ==
  /\ lastEvent = [kind |-> "click", arg |-> "overlay"]
  /\ symmetricClicks = 2
  /\ reopened
  /\ Has(calls, "onClose")
====
